---- MODULE Spec2Model ----
(***************************************************************************)
(* A model of s2.py: the S^2 active-learning loop (s2), cut inference      *)
(* (find_obvious_cuts) and the shortest-discordant-path search (find_ssp,  *)
(* find_mssp), together with the parts of networkx they use.               *)
(*                                                                         *)
(* Python values are represented as follows.                               *)
(*   - an optional value (x or None) is a sequence of length at most one:  *)
(*     None is << >> and x is <<x>>;                                       *)
(*   - a dict is a function from its keys; the attribute dict of a vertex  *)
(*     is either empty or ("label" :> y);                                  *)
(*   - a graph is a record [node, edge]: node maps every vertex to its     *)
(*     attribute dict (networkx's G.node), edge is a set of two-element    *)
(*     vertex sets;                                                        *)
(*   - graph objects live in a heap (a sequence of graphs) and program     *)
(*     variables hold references (indexes) into it, so that copying and    *)
(*     aliasing differ;                                                    *)
(*   - the result of a call that may raise is a record [raised, ret].      *)
(***************************************************************************)
EXTENDS FiniteSets, Integers, Sequences, TLC

\* Largest number of vertices of an input graph.
MaxV == 3
\* How many queries beyond the vertex count a run is followed for.
MaxExtra == 1
\* Longest labeled set handed to a direct call of find_obvious_cuts or find_ssp.
MaxL == 3

VARIABLES
    heap,       \* the graph objects
    callerG,    \* the caller's reference to the input graph
    input,      \* the value of the input graph when s2 was called
    oracle,     \* the oracle: a function from vertices to BOOLEAN
    nopath,     \* how shortest_path signals absence: "None" or "NetworkXNoPath"
    G,          \* s2's local G (a reference)
    n,          \* s2's local n
    L,          \* s2's local L: a sequence of <<vert, label>>
    vert,       \* s2's local vert (optional vertex)
    cuts,       \* s2's local cuts
    answers,    \* what shortest_path answered during the last find_ssp
    ssp,        \* the result of the last find_ssp: [raised, ret]
    pc          \* the position in s2

vars == <<heap, callerG, input, oracle, nopath, G, n, L, vert, cuts, answers, ssp, pc>>

----------------------------------------------------------------------------
(* Python and networkx helpers *)

None == << >>

EmptyDict == [k \in {} |-> TRUE]

Returns(x) == [raised |-> FALSE, ret |-> x]

Raises == [raised |-> TRUE, ret |-> None]

Min(S) == CHOOSE x \in S : \A y \in S : x <= y

Range(s) == {s[i] : i \in 1..Len(s)}

nodes(g) == DOMAIN g.node

order(g) == Cardinality(nodes(g))

\* has_label with the truth value of the label tested instead of `is not None`.
has_label_truthy(d) == "label" \in DOMAIN d /\ d["label"]

\* d.get('label') is not None
has_label(d) == "label" \in DOMAIN d

\* G.node[v]['label']
label(g, v) == g.node[v]["label"]

\* set_label on attribute dicts that all vertices share: every vertex gets y.
set_label_shared(g, v, y) == [g EXCEPT !.node = [w \in nodes(g) |-> ("label" :> y) @@ g.node[w]]]

\* set_label that marks nothing.
set_label_dropped(g, v, y) == g

\* G.node[v]['label'] = y
set_label(g, v, y) == [g EXCEPT !.node[v] = ("label" :> y) @@ @]

\* remove_edges_from that leaves the graph as it is.
remove_edges_from_nothing(g, ebunch) == g

remove_edges_from(g, ebunch) == [g EXCEPT !.edge = @ \ ebunch]

\* G.subgraph(nbunch): vertices of nbunch that are not in G are ignored.
subgraph(g, nbunch) ==
    [node |-> [v \in nodes(g) \cap nbunch |-> g.node[v]],
     edge |-> {e \in g.edge : e \subseteq nbunch}]

\* copy that rebuilds the graph from its edges: isolated vertices are lost.
copy_of_edges(h, r) ==
    [heap |-> Append(h, [node |-> [v \in UNION h[r].edge |-> h[r].node[v]], edge |-> h[r].edge]),
     ref |-> Len(h) + 1]

\* copy that hands back the same graph object.
copy_alias(h, r) == [heap |-> h, ref |-> r]

\* G.copy(): a new graph object with the same vertices, attributes and edges.
copy(h, r) == [heap |-> Append(h, h[r]), ref |-> Len(h) + 1]

\* itertools.combinations(s, r=2), in its order.
RECURSIVE combinations(_)
combinations(s) ==
    IF Len(s) < 2 THEN << >>
    ELSE [j \in 1..(Len(s) - 1) |-> <<s[1], s[j + 1]>>] \o combinations(Tail(s))

----------------------------------------------------------------------------
(* The input graphs *)

Graph(V, E) == [node |-> [v \in V |-> EmptyDict], edge |-> E]

PathEdges(k) == {{i, i + 1} : i \in 1..(k - 1)}

CycleEdges(k) == PathEdges(k) \cup {e \in {{k, 1}} : k >= 3}

StarEdges(k) == {{1, i} : i \in 2..k}

CompleteEdges(k) == {{i, j} : i, j \in 1..k} \ {{i} : i \in 1..k}

Graphs ==
    UNION {{Graph(1..k, PathEdges(k)), Graph(1..k, CycleEdges(k)),
            Graph(1..k, StarEdges(k)), Graph(1..k, CompleteEdges(k)),
            Graph(1..k, {})} : k \in 1..MaxV}

----------------------------------------------------------------------------
(* The shortest-path function (networkx.shortest_path, or one that returns *)
(* None when there is no path): any shortest path of the graph.            *)

neighbors(g, v) == {w \in nodes(g) : {v, w} \in g.edge}

\* The simple paths of k vertices that start at u.
RECURSIVE SimplePaths(_, _, _)
SimplePaths(g, u, k) ==
    IF k = 1 THEN {<<u>>}
    ELSE UNION {{Append(p, w) : w \in neighbors(g, p[k - 1]) \ Range(p)} :
                p \in SimplePaths(g, u, k - 1)}

ShortestPaths(g, u, v) ==
    LET ks == {k \in 1..order(g) : \E p \in SimplePaths(g, u, k) : p[k] = v}
    IN  IF ks = {} THEN {}
        ELSE {p \in SimplePaths(g, u, Min(ks)) : p[Min(ks)] = v}

\* The possible outcomes of shortest_path(g, u, v).
shortest_path(g, u, v, signal) ==
    IF ShortestPaths(g, u, v) = {}
    THEN {IF signal = "None" THEN Returns(None) ELSE Raises}
    ELSE {Returns(<<p>>) : p \in ShortestPaths(g, u, v)}

\* The functions from the pairs of P to an outcome of shortest_path.
RECURSIVE ShortestPathFns(_, _, _)
ShortestPathFns(g, P, signal) ==
    IF P = {} THEN {[p \in {} |-> Raises]}
    ELSE LET q == CHOOSE p \in P : TRUE
         IN  {(q :> a) @@ f : a \in shortest_path(g, q[1], q[2], signal),
                              f \in ShortestPathFns(g, P \ {q}, signal)}

----------------------------------------------------------------------------
(* s2.py *)

labeled_nodes(LL) == [i \in 1..Len(LL) |-> LL[i][1]]

\* find_obvious_cuts comparing the attributes over the edges of G itself, not
\* over those of the labeled subgraph.
find_obvious_cuts_unrestricted(g, Lopt) ==
    {e \in g.edge : \E u, v \in e : g.node[u] # g.node[v]}

\* find_obvious_cuts that always scans the graph for labels, whatever L is.
find_obvious_cuts_rescan(g, Lopt) ==
    LET scanned == {v \in nodes(g) : has_label(g.node[v])}
    IN  {e \in subgraph(g, scanned).edge :
            \E u, v \in e : u # v /\ label(g, u) # label(g, v)}

\* find_obvious_cuts(G, L); Lopt is None or <<L>>.
find_obvious_cuts(g, Lopt) ==
    LET scanned == {v \in nodes(g) : has_label(g.node[v])}
        given   == IF Lopt = None THEN scanned ELSE Range(labeled_nodes(Lopt[1]))
        labeled_subgraph == subgraph(g, given)
    IN  {e \in labeled_subgraph.edge :
            \E u, v \in e : u # v /\ label(g, u) # label(g, v)}

\* The pairs find_ssp calls shortest_path on, in order.
DiscordantPairs(g, LL) ==
    SelectSeq(combinations(labeled_nodes(LL)),
              LAMBDA p : label(g, p[1]) # label(g, p[2]))

\* The list `paths` of find_ssp; sp maps each pair to shortest_path's outcome.
RECURSIVE CollectPaths(_, _)
CollectPaths(pairs, sp) ==
    IF pairs = << >> THEN << >>
    ELSE IF sp[Head(pairs)].raised THEN CollectPaths(Tail(pairs), sp)
         ELSE <<sp[Head(pairs)].ret>> \o CollectPaths(Tail(pairs), sp)

\* A minimum that keeps the last element of least length.
MinByLenLast(paths) ==
    LET i == CHOOSE j \in 1..Len(paths) :
                /\ \A k \in 1..Len(paths) : Len(paths[j][1]) <= Len(paths[k][1])
                /\ \A k \in (j + 1)..Len(paths) : Len(paths[j][1]) < Len(paths[k][1])
    IN  paths[i]

\* min(paths, key=len): the first element of least length.
MinByLen(paths) ==
    LET i == Min({j \in 1..Len(paths) :
                    \A k \in 1..Len(paths) : Len(paths[j][1]) <= Len(paths[k][1])})
    IN  paths[i]

find_ssp(g, LL, sp) ==
    LET paths == CollectPaths(DiscordantPairs(g, LL), sp)
    IN  IF paths = << >> THEN Returns(None)
        ELSE IF \E i \in 1..Len(paths) : paths[i] = None THEN Raises
        ELSE Returns(MinByLen(paths))

\* find_mssp indexing with len(ssp) // 2 - 1.
find_mssp_before(g, LL, sp) ==
    LET r == find_ssp(g, LL, sp)
    IN  IF r.raised THEN Raises
        ELSE IF r.ret = None THEN Returns(None)
        ELSE Returns(<<r.ret[1][Len(r.ret[1]) \div 2]>>)

\* find_mssp indexing with (len(ssp) - 1) // 2.
find_mssp_lower(g, LL, sp) ==
    LET r == find_ssp(g, LL, sp)
    IN  IF r.raised THEN Raises
        ELSE IF r.ret = None THEN Returns(None)
        ELSE Returns(<<r.ret[1][((Len(r.ret[1]) - 1) \div 2) + 1]>>)

find_mssp(g, LL, sp) ==
    LET r == find_ssp(g, LL, sp)
    IN  IF r.raised THEN Raises
        ELSE IF r.ret = None THEN Returns(None)
        ELSE Returns(<<r.ret[1][(Len(r.ret[1]) \div 2) + 1]>>)

----------------------------------------------------------------------------
(* The run of s2 *)

Init ==
    /\ \E g \in Graphs : heap = <<g>> /\ input = g /\ oracle \in [nodes(g) -> BOOLEAN]
    /\ callerG = 1
    /\ nopath \in {"None", "NetworkXNoPath"}
    /\ G = 0
    /\ n = 0
    /\ L = << >>
    /\ vert = None
    /\ cuts = {}
    /\ answers = [p \in {} |-> Raises]
    /\ ssp = Returns(None)
    /\ pc = "call"

\* s2, lines 32-38
Call ==
    /\ pc = "call"
    /\ LET c == copy(heap, callerG)
       IN  /\ heap' = c.heap
           /\ G' = c.ref
           /\ n' = order(c.heap[c.ref])
    /\ L' = << >>
    /\ pc' = "outer"
    /\ UNCHANGED <<callerG, input, oracle, nopath, vert, cuts, answers, ssp>>

\* s2, lines 40-42 and 67
Return ==
    /\ pc = "outer"
    /\ Len(L) = n
    /\ pc' = "done"
    /\ UNCHANGED <<heap, callerG, input, oracle, nopath, G, n, L, vert, cuts, answers, ssp>>

\* Seed drawing only among the vertices without a label.
Seed_unlabeled(v) ==
    /\ pc = "outer"
    /\ Len(L) # n
    /\ Len(L) < n + MaxExtra
    /\ v \in nodes(heap[G])
    /\ ~has_label(heap[G].node[v])
    /\ vert' = <<v>>
    /\ pc' = "query"
    /\ UNCHANGED <<heap, callerG, input, oracle, nopath, G, n, L, cuts, answers, ssp>>

\* s2, lines 40-45: random.choice(G.nodes()) picks v.  A run is not followed
\* beyond n + MaxExtra queries: by then len(L) > n, and since L only grows the
\* test of line 41 fails from there on.
Seed(v) ==
    /\ pc = "outer"
    /\ Len(L) # n
    /\ Len(L) < n + MaxExtra
    /\ v \in nodes(heap[G])
    /\ vert' = <<v>>
    /\ pc' = "query"
    /\ UNCHANGED <<heap, callerG, input, oracle, nopath, G, n, L, cuts, answers, ssp>>

\* s2, lines 49-53
Query ==
    /\ pc = "query"
    /\ Len(L) < n + MaxExtra
    /\ LET y == oracle[vert[1]]
       IN  /\ L' = Append(L, <<vert[1], y>>)
           /\ heap' = [heap EXCEPT ![G] = set_label(@, vert[1], y)]
    /\ pc' = "cuts"
    /\ UNCHANGED <<callerG, input, oracle, nopath, G, n, vert, cuts, answers, ssp>>

\* s2, lines 56-58
Unzip ==
    /\ pc = "cuts"
    /\ cuts' = find_obvious_cuts(heap[G], <<L>>)
    /\ heap' = [heap EXCEPT ![G] = remove_edges_from(@, cuts')]
    /\ pc' = "search"
    /\ UNCHANGED <<callerG, input, oracle, nopath, G, n, L, vert, answers, ssp>>

\* s2, lines 61-65
Search ==
    /\ pc = "search"
    /\ \E sp \in ShortestPathFns(heap[G], Range(DiscordantPairs(heap[G], L)), nopath) :
        /\ answers' = sp
        /\ ssp' = find_ssp(heap[G], L, sp)
        /\ LET m == find_mssp(heap[G], L, sp)
           IN  IF m.raised THEN pc' = "TypeError" /\ vert' = vert
               ELSE /\ vert' = m.ret
                    /\ pc' = IF m.ret = None THEN "outer" ELSE "query"
    /\ UNCHANGED <<heap, callerG, input, oracle, nopath, G, n, L, cuts>>

Next ==
    \/ Call
    \/ Return
    \/ \E v \in 1..(MaxV + 1) : Seed(v)
    \/ Query
    \/ Unzip
    \/ Search

Spec == Init /\ [][Next]_vars

----------------------------------------------------------------------------
(* Direct calls of find_obvious_cuts, find_ssp and find_mssp on any         *)
(* annotated graph and any labeled set over its annotated vertices; the    *)
(* labeled set may also name a vertex that is not in the graph.            *)

\* g with the vertices of S annotated by the labels f gives them.
Annotated(g, S, f) ==
    [g EXCEPT !.node = [v \in nodes(g) |-> IF v \in S THEN ("label" :> f[v]) ELSE EmptyDict]]

\* The labeled sets of at most MaxL entries over the vertices of S.
LabeledSets(S, f) ==
    UNION {{[i \in 1..k |-> <<s[i], f[s[i]]>>] : s \in [1..k -> S]} : k \in 0..MaxL}

\* A vertex that is not in g.
Absent(g) == order(g) + 1

\* The labeled sets of LabeledSets(S, f), and those of them that are short of
\* MaxL entries with an entry for a vertex outside g put in at any place.
StaleLabeledSets(g, S, f) ==
    LabeledSets(S, f) \cup
    UNION {{[i \in 1..(Len(l) + 1) |->
                IF i <= k THEN l[i] ELSE IF i = k + 1 THEN <<Absent(g), TRUE>> ELSE l[i - 1]] :
            k \in 0..Len(l)} : l \in {x \in LabeledSets(S, f) : Len(x) < MaxL}}

\* Whether G.node[u]['label'] raises KeyError for a vertex of a pair that find_ssp
\* goes through.
find_ssp_KeyError(g, LL) ==
    \E p \in Range(combinations(labeled_nodes(LL))) :
        \E u \in {p[1], p[2]} : u \notin nodes(g) \/ ~("label" \in DOMAIN g.node[u])

\* A shortest_path function of any kind: a simple path from u to v, or absence.
any_path(g, u, v, signal) ==
    {IF signal = "None" THEN Returns(None) ELSE Raises}
    \cup {Returns(<<p>>) : p \in {q \in UNION {SimplePaths(g, u, k) : k \in 1..order(g)} :
                                     q[Len(q)] = v}}

RECURSIVE AnyPathFns(_, _, _)
AnyPathFns(g, P, signal) ==
    IF P = {} THEN {[p \in {} |-> Raises]}
    ELSE LET q == CHOOSE p \in P : TRUE
         IN  {(q :> a) @@ f : a \in any_path(g, q[1], q[2], signal),
                              f \in AnyPathFns(g, P \ {q}, signal)}

InitFn ==
    /\ \E g \in Graphs :
         /\ oracle \in [nodes(g) -> BOOLEAN]
         /\ \E S \in SUBSET nodes(g) :
              /\ heap = <<Annotated(g, S, oracle)>>
              /\ L \in StaleLabeledSets(g, S, oracle)
         /\ input = g
         /\ n = order(g)
    /\ callerG = 1
    /\ nopath \in {"None", "NetworkXNoPath"}
    /\ G = 1
    /\ vert = None
    /\ cuts = {}
    /\ answers = [p \in {} |-> Raises]
    /\ ssp = Returns(None)
    /\ pc = "fn"

\* cuts = find_obvious_cuts(G, L)
CallCuts ==
    /\ pc = "fn"
    /\ cuts' = find_obvious_cuts(heap[G], <<L>>)
    /\ pc' = "fn_cuts"
    /\ UNCHANGED <<heap, callerG, input, oracle, nopath, G, n, L, vert, answers, ssp>>

\* ssp = find_ssp(G, L, shortest_path)
CallSsp ==
    /\ pc = "fn"
    /\ IF find_ssp_KeyError(heap[G], L)
       THEN pc' = "fn_KeyError" /\ UNCHANGED <<answers, ssp>>
       ELSE /\ \E sp \in AnyPathFns(heap[G], Range(DiscordantPairs(heap[G], L)), nopath) :
                /\ answers' = sp
                /\ ssp' = find_ssp(heap[G], L, sp)
            /\ pc' = "fn_ssp"
    /\ UNCHANGED <<heap, callerG, input, oracle, nopath, G, n, L, vert, cuts>>

\* vert = find_mssp(G, L, shortest_path), with a shortest_path that gives
\* shortest paths
CallMssp ==
    /\ pc = "fn"
    /\ IF find_ssp_KeyError(heap[G], L)
       THEN pc' = "fn_KeyError" /\ UNCHANGED <<answers, ssp, vert>>
       ELSE \E sp \in ShortestPathFns(heap[G], Range(DiscordantPairs(heap[G], L)), nopath) :
                /\ answers' = sp
                /\ ssp' = find_ssp(heap[G], L, sp)
                /\ LET m == find_mssp(heap[G], L, sp)
                   IN  IF m.raised THEN pc' = "fn_TypeError" /\ vert' = vert
                       ELSE pc' = "fn_mssp" /\ vert' = m.ret
    /\ UNCHANGED <<heap, callerG, input, oracle, nopath, G, n, L, cuts>>

NextFn ==
    \/ CallCuts
    \/ CallSsp
    \/ CallMssp

SpecFn == InitFn /\ [][NextFn]_vars

----------------------------------------------------------------------------
(* The claims *)

Running ==
    pc \notin {"call", "fn", "fn_cuts", "fn_ssp", "fn_mssp", "fn_KeyError", "fn_TypeError"}

Labeled(g) == {v \in nodes(g) : "label" \in DOMAIN g.node[v]}

\* The edges of g whose two endpoints the oracle labels alike.
ConcordantEdges(g) == {e \in g.edge : \A u, v \in e : oracle[u] = oracle[v]}

\* C1: every run of s2 eventually returns (with a shortest_path that raises
\* NetworkXNoPath, the signal find_ssp handles).  s2 returns only from the
\* test len(L) == n of line 41 and L is only ever appended to, so a run that
\* is to return never holds more than n entries in L.
C1_ReturnStaysPossible == (Running /\ nopath = "NetworkXNoPath") => Len(L) <= n

\* C2: when s2 returns, every vertex of the returned graph carries a label,
\* and that label is the oracle's value for the vertex.
C2_AllLabeledAtReturn ==
    pc = "done" =>
        \A v \in nodes(heap[G]) :
            "label" \in DOMAIN heap[G].node[v] /\ heap[G].node[v]["label"] = oracle[v]

\* C3: every query targets a vertex that has no label yet, and L never holds
\* the same vertex twice (each vertex is queried exactly once).
C3_QueriedOnce ==
    Running =>
        /\ pc = "query" => vert[1] \notin Labeled(heap[G])
        /\ \A i, j \in 1..Len(L) : L[i][1] = L[j][1] => i = j

\* C4: every edge of the input graph that is missing from the working graph
\* joins two labeled vertices whose labels differ.
C4_CutSoundness ==
    Running =>
        \A e \in input.edge \ heap[G].edge :
            /\ e \subseteq Labeled(heap[G])
            /\ \E u, v \in e : heap[G].node[u]["label"] # heap[G].node[v]["label"]

C4_Witness ==
    /\ pc = "done"
    /\ input.edge \ heap[G].edge # {}
    /\ heap[G].edge # {}

\* C5: when s2 returns, the edges of the returned graph are exactly the input
\* edges whose two endpoints have equal oracle labels.
C5_ExactCutAtReturn == pc = "done" => heap[G].edge = ConcordantEdges(input)

\* C6: s2 never changes the caller's graph: its vertices, edges and label
\* attributes stay what they were when s2 was called.
C6_InputUnchanged == heap[callerG] = input

C6_Witness ==
    /\ pc = "done"
    /\ heap[G].edge # input.edge
    /\ Labeled(heap[G]) # {}

\* C7: a "no path" answer never aborts the run, whether it is signalled by
\* the None return value or by the NetworkXNoPath exception.
C7_NoPathNeverAborts == pc # "TypeError"

\* C8: find_obvious_cuts(G, L) returns exactly the edges of G whose two
\* endpoints are both in L and carry different labels.
C8_CutsExact ==
    pc = "fn_cuts" =>
        cuts = {e \in heap[G].edge :
                  /\ \A u \in e : \E i \in 1..Len(L) : L[i][1] = u
                  /\ \E u, v \in e : heap[G].node[u]["label"] # heap[G].node[v]["label"]}

C8_Witness ==
    /\ pc = "fn_cuts"
    /\ cuts # {}
    /\ \E e \in heap[G].edge \ cuts :
          /\ e \subseteq Labeled(heap[G])
          /\ \E u, v \in e : heap[G].node[u]["label"] # heap[G].node[v]["label"]

\* C9: during a run, find_obvious_cuts with the tracked labeled set L and
\* find_obvious_cuts with no labeled set return the same set of edges.
C9_ScanEquivalence ==
    Running => find_obvious_cuts(heap[G], <<L>>) = find_obvious_cuts(heap[G], None)

C9_Witness ==
    /\ pc = "cuts"
    /\ find_obvious_cuts(heap[G], None) # {}
    /\ Len(L) >= 3

\* The index pairs i < j of L whose vertices have different labels and for
\* which shortest_path gave a path.
Obtained ==
    {ij \in (1..Len(L)) \X (1..Len(L)) :
        /\ ij[1] < ij[2]
        /\ heap[G].node[L[ij[1]][1]]["label"] # heap[G].node[L[ij[2]][1]]["label"]
        /\ ~answers[<<L[ij[1]][1], L[ij[2]][1]>>].raised
        /\ answers[<<L[ij[1]][1], L[ij[2]][1]>>].ret # None}

PathOf(ij) == answers[<<L[ij[1]][1], L[ij[2]][1]>>].ret[1]

\* The order in which itertools.combinations yields the index pairs.
Earlier(kl, ij) == kl[1] < ij[1] \/ (kl[1] = ij[1] /\ kl[2] < ij[2])

\* C10: when find_ssp returns, it returns None if no pair gave a path, and
\* otherwise the path of the first pair, in enumeration order, whose path has
\* the least number of vertices.
C10_ShortestFirst ==
    (pc = "fn_ssp" /\ ~ssp.raised) =>
        IF Obtained = {} THEN ssp.ret = None
        ELSE /\ ssp.ret # None
             /\ \E ij \in Obtained :
                  /\ ssp.ret[1] = PathOf(ij)
                  /\ \A kl \in Obtained :
                       /\ Len(PathOf(ij)) <= Len(PathOf(kl))
                       /\ Earlier(kl, ij) => Len(PathOf(ij)) < Len(PathOf(kl))

C10_Witness ==
    /\ pc = "fn_ssp"
    /\ ~ssp.raised
    /\ ssp.ret # None
    /\ \E ij, kl \in Obtained :
          /\ PathOf(ij) # PathOf(kl)
          /\ Len(PathOf(ij)) = Len(PathOf(kl))
          /\ Len(PathOf(ij)) = Len(ssp.ret[1])

C17_AbsentVertexFails ==
    pc = "fn_cuts" => \A i \in 1..Len(L) : L[i][1] \in nodes(heap[G])

\* The edges of g whose two endpoints are labeled with different labels.
DiscordantEdges(g) ==
    {e \in g.edge : /\ e \subseteq Labeled(g)
                    /\ \E u, v \in e : g.node[u]["label"] # g.node[v]["label"]}

\* C12: after the cut removal of an inner-loop iteration, hence whenever the
\* path search is invoked and when s2 returns, the working graph has no edge
\* whose two endpoints are labeled with different labels.
C12_NoDiscordantEdgeLeft ==
    (Running /\ pc # "cuts") => DiscordantEdges(heap[G]) = {}

C12_Witness ==
    /\ pc = "search"
    /\ cuts # {}
    /\ heap[G].edge # {}

\* C13: s2 seeds new queries exactly while fewer vertices are labeled than
\* the graph has: the oracle is never queried when every vertex has a label,
\* and the outer test exits exactly when every vertex has a label.
C13_SeedsWhileUnlabeled ==
    Running =>
        /\ pc = "query" => Labeled(heap[G]) # nodes(heap[G])
        /\ pc = "outer" => (Len(L) = n <=> Labeled(heap[G]) = nodes(heap[G]))

\* C14: the reseed step draws from all the vertices, labeled or not: while s2
\* is short of n queries, every vertex of the graph can be the next seed.
C14_SeedFromAllVertices ==
    (pc = "outer" /\ Len(L) < n) => \A v \in nodes(heap[G]) : ENABLED Seed(v)

\* A labeled vertex was drawn, queried and appended again, and more queries
\* were issued than there are vertices.
C14_Witness ==
    /\ Running
    /\ Len(L) > n
    /\ \E i, j \in 1..Len(L) : i < j /\ L[i] = L[j]

\* C15: a label in the working graph never changes once set, also when its
\* vertex is queried again, and the entries of L for one vertex carry the
\* same label.
C15_LabelsStable ==
    [][pc # "call" =>
        /\ \A v \in Labeled(heap[G]) : heap'[G'].node[v] = heap[G].node[v]
        /\ \A i, j \in 1..Len(L') : L'[i][1] = L'[j][1] => L'[i][2] = L'[j][2]]_vars

C15_Witness ==
    /\ pc = "cuts"
    /\ \E i \in 1..(Len(L) - 1) : L[i][1] = L[Len(L)][1]
    /\ \E i \in 1..Len(L) : L[i][2] # L[Len(L)][2]

\* C16: the working graph always has the vertices of the input graph, its
\* edges are edges of the input graph, and no step adds an edge to it.
C16_OnlyShrinks ==
    [][pc' # "call" =>
        /\ nodes(heap'[G']) = nodes(input')
        /\ heap'[G'].edge \subseteq input'.edge
        /\ pc # "call" => heap'[G'].edge \subseteq heap[G].edge]_vars

C16_Witness ==
    /\ pc = "outer"
    /\ Cardinality(input.edge \ heap[G].edge) >= 2

\* C18: with a shortest_path that gives shortest paths, a target that
\* find_mssp hands to the inner loop is a strictly interior vertex of the
\* winning path, which has at least 3 vertices, and has no label yet; so a
\* query of a labeled vertex comes from the reseed step only.
C18_MidpointUnlabeled ==
    (pc = "query" /\ ssp.ret # None) =>
        /\ Len(ssp.ret[1]) >= 3
        /\ \E j \in 2..(Len(ssp.ret[1]) - 1) : vert[1] = ssp.ret[1][j]
        /\ vert[1] # ssp.ret[1][1]
        /\ vert[1] # ssp.ret[1][Len(ssp.ret[1])]
        /\ vert[1] \notin Labeled(heap[G])

C18_Witness ==
    /\ pc = "query"
    /\ ssp.ret # None
    /\ Len(L) >= 3

\* C19: where s2 calls find_obvious_cuts or find_ssp, the vertices of L are
\* the vertices that carry a label in the working graph, every entry of L
\* holds the graph's label of its vertex, and L has at least as many entries
\* as there are labeled vertices.
C19_LMatchesLabels ==
    pc \in {"cuts", "search"} =>
        /\ {L[i][1] : i \in 1..Len(L)} = Labeled(heap[G])
        /\ \A i \in 1..Len(L) : L[i][2] = heap[G].node[L[i][1]]["label"]
        /\ Len(L) >= Cardinality(Labeled(heap[G]))

C19_Witness ==
    /\ pc = "search"
    /\ Len(L) > Cardinality(Labeled(heap[G]))
    /\ Cardinality(Labeled(heap[G])) >= 2

====
